---- MODULE Spec2Model ----
(***************************************************************************)
(* Model of quark_cli.api.QuarkAPI: path resolution (get_fid_by_path) and  *)
(* the four-stage pipeline of unzip_all_in_path (unzip, organize, cleanup  *)
(* of emptied folders, cleanup of source archives), each stage with its    *)
(* single retry pass.  The remote drive is the environment: every request  *)
(* either returns or raises, and a request that returns changes the tree.  *)
(*                                                                         *)
(* Strings are sequences of one-character strings, so that split, strip    *)
(* and splitext are computed as Python computes them.  Fids are integers;  *)
(* the root fid "0" of the source is 0.                                    *)
(***************************************************************************)
EXTENDS Integers, Sequences, FiniteSets, TLC

\* ---------------------------------------------------------------- bounds
\* longest dir_path drawn by the path-resolution specification
MaxPathLen == 5
\* most entries the remote unpacks out of one archive
MaxChildren == 1

\* --------------------------------------------------- program constants
\* '_size': 500 of get_files_by_pid: one page of a listing
PageSize == 500
\* inter-item delays of the first pass and of the retry pass, in tenths of a second
NominalDelay == 2
RetryDelay == 8

\* ------------------------------------------------------ string helpers
Min(a, b) == IF a < b THEN a ELSE b

Last(s) == s[Len(s)]

\* indices of the occurrences of character c in s
Positions(s, c) == {i \in 1..Len(s) : s[i] = c}

\* str.find / str.rfind, 0 when absent (indices are 1-based here)
Find(s, c) == IF Positions(s, c) = {} THEN 0
              ELSE CHOOSE i \in Positions(s, c) : \A j \in Positions(s, c) : i <= j

RFind(s, c) == IF Positions(s, c) = {} THEN 0
               ELSE CHOOSE i \in Positions(s, c) : \A j \in Positions(s, c) : j <= i

Whitespace == {" "}

RECURSIVE LStrip(_)
LStrip(s) == IF s # <<>> /\ Head(s) \in Whitespace THEN LStrip(Tail(s)) ELSE s

RECURSIVE RStrip(_)
RStrip(s) == IF s # <<>> /\ Last(s) \in Whitespace
             THEN RStrip(SubSeq(s, 1, Len(s) - 1)) ELSE s

\* str.strip()
Strip(s) == RStrip(LStrip(s))

\* str.split(c): the pieces between the occurrences of c, empty pieces kept
RECURSIVE Split(_, _)
Split(s, c) ==
    LET i == Find(s, c)
    IN  IF i = 0 THEN <<s>>
        ELSE <<SubSeq(s, 1, i - 1)>> \o Split(SubSeq(s, i + 1, Len(s)), c)

NonEmpty(part) == part # <<>>

\* path_parts of get_fid_by_path
PathParts(path) == SelectSeq(Split(Strip(path), "/"), NonEmpty)

\* os.path.splitext(name)[0]: the name up to its last dot, when that dot
\* comes after the last separator and after a character that is not a dot
SplitextRoot(name) ==
    LET sepIndex == RFind(name, "/")
        dotIndex == RFind(name, ".")
    IN  IF dotIndex > sepIndex
           /\ \E k \in (sepIndex + 1)..(dotIndex - 1) : name[k] # "."
        THEN SubSeq(name, 1, dotIndex - 1)
        ELSE name

\* the recognised extensions of unzip_all_in_path
ArchiveExtensions ==
    { <<"z", "i", "p">>, <<"r", "a", "r">>, <<"7", "z">>,
      <<"t", "a", "r">>, <<"g", "z">> }

\* the filter of unzip_all_in_path on one listing entry
IsCompressedFile(f) ==
    /\ ~f.dir
    /\ Last(Split(f.file_name, ".")) \in ArchiveExtensions

\* ------------------------------------------------------ the remote tree
\* remote maps the fid of a directory to its listing, in the order in which
\* the drive returns it; an entry is [fid, file_name, dir].
Entry(fid, name, isdir) == [fid |-> fid, file_name |-> name, dir |-> isdir]

Children(tree, pid) == IF pid \in DOMAIN tree THEN tree[pid] ELSE <<>>

\* the list returned by get_files_by_pid: the first page only
FirstPage(tree, pid) ==
    SubSeq(Children(tree, pid), 1, Min(Len(Children(tree, pid)), PageSize))

\* the first index at which hits is TRUE, 0 without one: where the for/break
\* loops over a listing stop
FirstIndex(hits) ==
    IF \E i \in 1..Len(hits) : hits[i]
    THEN CHOOSE i \in 1..Len(hits) : hits[i] /\ \A j \in 1..(i - 1) : ~hits[j]
    ELSE 0


\* ------------------------------------------------------------ the state
VARIABLES
    dir_path,               \* argument of unzip_all_in_path
    delete_source_files,    \* argument of unzip_all_in_path
    remote,                 \* the tree held by the drive
    pc,                     \* position in unzip_all_in_path
    path_parts,             \* get_fid_by_path: the parts not yet walked
    current_fid,            \* get_fid_by_path
    target_dir_fid,
    all_compressed_files,
    successful_unzip,
    failed_unzip,
    organized_folders,
    failed_organize,
    failed_delete,
    failed_delete_source,
    passes,                 \* one frame per call of a _task method, last = running
    calls,                  \* the requests sent to the drive, in order
    status                  \* the closing panel printed by the run

resolver == <<path_parts, current_fid, target_dir_fid>>
args     == <<dir_path, delete_source_files>>
lists    == <<all_compressed_files, successful_unzip, failed_unzip,
              organized_folders, failed_organize, failed_delete,
              failed_delete_source>>
vars     == <<dir_path, delete_source_files, remote, pc, path_parts,
              current_fid, target_dir_fid, all_compressed_files,
              successful_unzip, failed_unzip, organized_folders,
              failed_organize, failed_delete, failed_delete_source,
              passes, calls, status>>

None == -1

\* ------------------------------------------------------- requests (log)
\* one request of _make_request: op is the endpoint, fid the listed parent,
\* the archive or the deleted item, fids/to the arguments of a move, ok
\* whether it returned (TRUE) or raised (FALSE), site the caller's position,
\* item the fid of the item of the loop the request is made for
Call(op, fid, fids, to, ok, item) ==
    [op |-> op, fid |-> fid, fids |-> fids, to |-> to, ok |-> ok,
     site |-> pc, item |-> item]

\* get_files_by_pid outside of a loop over items
ListCall(pid, ok)            == Call("list", pid, <<>>, None, ok, None)
\* get_files_by_pid of line 161
ListFolderCall(pid, ok, it)  == Call("list", pid, <<>>, None, ok, it)
\* the request of line 129
UnarchiveCall(fid, ok)       == Call("unarchive", fid, <<>>, target_dir_fid, ok, fid)
\* move_files of line 164
MoveCall(src, fids, ok, it)  == Call("move", src, fids, target_dir_fid, ok, it)
\* delete_items of line 188
DeleteCall(fid, ok)          == Call("delete", fid, <<fid>>, None, ok, fid)

\* ------------------------------------------------------------- names
N_d     == <<"d">>
N_a     == <<"a">>
N_k     == <<"k">>
N_zip   == <<"z", "i", "p">>
N_a_zip == <<"a", ".", "z", "i", "p">>
N_a_rar == <<"a", ".", "r", "a", "r">>
N_b_rar == <<"b", ".", "r", "a", "r">>
N_c_zip == <<"c", ".", "z", "i", "p">>
N_n_txt == <<"n", ".", "t", "x", "t">>

\* --------------------------------------------------- initial remote trees
\* the directory d (fid 1) under the root holds:
\* two archives
TreeTwo ==
    (0 :> <<Entry(1, N_d, TRUE)>>) @@
    (1 :> <<Entry(2, N_a_zip, FALSE), Entry(3, N_b_rar, FALSE)>>)

\* two archives with the same name up to the extension
TreeSameStem ==
    (0 :> <<Entry(1, N_d, TRUE)>>) @@
    (1 :> <<Entry(2, N_a_zip, FALSE), Entry(3, N_a_rar, FALSE)>>)

\* an archive next to a directory already named like it, with one file in it
TreeExisting ==
    (0 :> <<Entry(1, N_d, TRUE)>>) @@
    (1 :> <<Entry(4, N_a, TRUE), Entry(2, N_a_zip, FALSE)>>) @@
    (4 :> <<Entry(5, N_k, FALSE)>>)

\* no archive but names that look like one
TreeMixed ==
    (0 :> <<Entry(1, N_d, TRUE)>>) @@
    (1 :> <<Entry(6, N_c_zip, TRUE), Entry(7, N_zip, FALSE),
            Entry(8, N_n_txt, FALSE)>>) @@
    (6 :> <<>>)

Trees == {TreeTwo, TreeSameStem, TreeExisting, TreeMixed}

\* the paths of the runs: the directory, the root, a missing name, a
\* missing name below the directory
RunPaths == { <<"/", "d">>, <<"/">>, <<"/", "x">>, <<"d", "/", "x">> }

InitCommon ==
    /\ pc = "start"
    /\ path_parts = <<>>
    /\ current_fid = 0
    /\ target_dir_fid = None
    /\ all_compressed_files = <<>>
    /\ successful_unzip = <<>>
    /\ failed_unzip = <<>>
    /\ organized_folders = <<>>
    /\ failed_organize = <<>>
    /\ failed_delete = <<>>
    /\ failed_delete_source = <<>>
    /\ passes = <<>>
    /\ calls = <<>>
    /\ status = "running"

Init ==
    /\ dir_path \in RunPaths
    /\ delete_source_files \in BOOLEAN
    /\ remote \in Trees
    /\ InitCommon

\* ------------------------------------------------- ways out of the run
\* except (ValueError, FileNotFoundError): the error panel of line 248
InitError == pc' = "done" /\ status' = "init_error"

\* except Exception: the error panel of line 250
CriticalError == pc' = "done" /\ status' = "critical_error"

\* ------------------------------------------------------ get_fid_by_path
\* no early return for the root path and the empty parts are kept
GetFidByPathEnterNoRootCase ==
    /\ pc = "start"
    /\ path_parts' = Split(Strip(dir_path), "/")
    /\ current_fid' = 0
    /\ pc' = "resolve"
    /\ UNCHANGED <<args, remote, target_dir_fid, lists, passes, calls, status>>

\* lines 100-102: the root path returns at once, any other path is split
GetFidByPathEnter ==
    /\ pc = "start"
    /\ IF dir_path = <<"/">>
       THEN /\ target_dir_fid' = 0
            /\ pc' = "discover"
            /\ UNCHANGED <<path_parts, current_fid>>
       ELSE /\ path_parts' = PathParts(dir_path)
            /\ current_fid' = 0
            /\ pc' = "resolve"
            /\ UNCHANGED target_dir_fid
    /\ UNCHANGED <<args, remote, lists, passes, calls, status>>

\* names are compared with the blanks around them ignored
MatchesPartStripped(item) == Strip(item.file_name) = Head(path_parts)

\* the test of line 108 on one listing entry
MatchesPart(item) == item.file_name = Head(path_parts)

\* a missing part is reported but the walk goes on below the same directory
GetFidByPathPartNotFatal ==
    /\ pc = "resolve"
    /\ path_parts # <<>>
    /\ calls' = Append(calls, ListCall(current_fid, TRUE))
    /\ LET files_in_dir == FirstPage(remote, current_fid)
           i == FirstIndex([k \in 1..Len(files_in_dir) |-> MatchesPart(files_in_dir[k])])
       IN  /\ path_parts' = Tail(path_parts)
           /\ pc' = pc
           /\ IF i # 0
              THEN current_fid' = files_in_dir[i].fid /\ UNCHANGED status
              ELSE status' = "init_error" /\ UNCHANGED current_fid
    /\ UNCHANGED <<args, remote, target_dir_fid, lists, passes>>

\* lines 104-113, one turn of the loop whose listing request returns
GetFidByPathPart ==
    /\ pc = "resolve"
    /\ path_parts # <<>>
    /\ calls' = Append(calls, ListCall(current_fid, TRUE))
    /\ LET files_in_dir == FirstPage(remote, current_fid)
           i == FirstIndex([k \in 1..Len(files_in_dir) |-> MatchesPart(files_in_dir[k])])
       IN  IF i # 0
           THEN /\ current_fid' = files_in_dir[i].fid
                /\ path_parts' = Tail(path_parts)
                /\ UNCHANGED <<pc, status>>
           ELSE /\ InitError
                /\ UNCHANGED <<path_parts, current_fid>>
    /\ UNCHANGED <<args, remote, target_dir_fid, lists, passes>>

\* line 105 raising: the request fails and the run ends at line 250
GetFidByPathRaise ==
    /\ pc = "resolve"
    /\ path_parts # <<>>
    /\ calls' = Append(calls, ListCall(current_fid, FALSE))
    /\ CriticalError
    /\ UNCHANGED <<args, remote, resolver, lists, passes>>

\* lines 115-116 and 200: every part is matched
GetFidByPathReturn ==
    /\ pc = "resolve"
    /\ path_parts = <<>>
    /\ target_dir_fid' = current_fid
    /\ pc' = "discover"
    /\ UNCHANGED <<args, remote, path_parts, current_fid, lists, passes,
                   calls, status>>


\* ------------------------------------------------ what the drive does
Digits == <<"1", "2", "3", "4", "5", "6", "7", "8", "9">>

\* the decimal numeral of n >= 1
RECURSIVE Decimal(_)
Decimal(n) ==
    IF n < 10 THEN <<Digits[n]>>
    ELSE Decimal(n \div 10)
           \o (IF n % 10 = 0 THEN <<"0">> ELSE <<Digits[n % 10]>>)

Names(listing) == {listing[i].file_name : i \in 1..Len(listing)}

FidsOf(listing) == [i \in 1..Len(listing) |-> listing[i].fid]

FidSet(listing) == {listing[i].fid : i \in 1..Len(listing)}

\* conflict_mode 3: a taken name gets the first free counter appended
FreshName(listing, name) ==
    IF name \notin Names(listing) THEN name
    ELSE LET Renamed(k) == name \o <<"(", Digits[k], ")">>
             free == {k \in 1..Len(Digits) : Renamed(k) \notin Names(listing)}
         IN  Renamed(CHOOSE k \in free : \A j \in free : k <= j)

\* fids the drive gives to what it unpacks out of the archive with fid a
FolderFid(a) == 10 + a
ChildFid(a, j) == 1000 * a + j

\* the tree after the drive unpacked archive into a new folder of k entries
\* in the directory pid (directories are listed first, newest first)
Unpacked(tree, archive, pid, k) ==
    LET folder == Entry(FolderFid(archive.fid),
                        FreshName(Children(tree, pid), SplitextRoot(archive.file_name)),
                        TRUE)
        inside == [j \in 1..k |->
                     Entry(ChildFid(archive.fid, j),
                           <<"f", Digits[archive.fid]>> \o Decimal(j), FALSE)]
    IN  (folder.fid :> inside) @@ [tree EXCEPT ![pid] = <<folder>> \o @]

\* the trees an accepted unarchive request can lead to: nothing to see
\* (yet), or the new folder with 0..MaxChildren entries
UnarchiveEffects(tree, archive, pid) ==
    {tree} \cup {Unpacked(tree, archive, pid, k) : k \in 0..MaxChildren}

Without(listing, gone) ==
    LET Stays(e) == e.fid \notin gone IN SelectSeq(listing, Stays)

\* the tree after an accepted move of the entries moved into the directory to
MoveEffect(tree, moved, to) ==
    LET rest == [p \in DOMAIN tree |-> Without(tree[p], FidSet(moved))]
    IN  IF to \in DOMAIN rest THEN [rest EXCEPT ![to] = @ \o moved] ELSE rest

\* the tree after an accepted delete of the item fid
DeleteEffect(tree, fid) ==
    [p \in DOMAIN tree \ {fid} |-> Without(tree[p], {fid})]

\* ------------------------------------------------------ frames of passes
\* the locals of one call of _unzip_task, _organize_task or _cleanup_task.
\* succeeded is successfully_unzipped / organized_folders; for _cleanup_task,
\* which returns the failed list only, it is the items whose delete returned
Frame(task, stage, retry, items, delay) ==
    [task |-> task, stage |-> stage, retry |-> retry, delay |-> delay,
     files_to_process |-> items, n |-> 0,
     succeeded |-> <<>>, failed |-> <<>>,
     listed |-> FALSE, all_files_in_dir |-> <<>>,
     state |-> "running"]

cur == passes[Len(passes)]

\* the item the loop of the running pass is at
file_info == cur.files_to_process[cur.n + 1]

InLoop(sites) ==
    /\ pc \in sites
    /\ cur.state = "running"
    /\ cur.n < Len(cur.files_to_process)

LoopDone(site) ==
    /\ pc = site
    /\ cur.state = "running"
    /\ cur.n = Len(cur.files_to_process)

\* the item went to the succeeded list / to the failed list / to neither
Succeed(item) ==
    passes' = [passes EXCEPT ![Len(passes)] =
                  [@ EXCEPT !.n = @ + 1, !.succeeded = Append(@, item)]]

\* a failure that is logged but not appended to the failed list
FailNotRecorded(item) ==
    passes' = [passes EXCEPT ![Len(passes)] = [@ EXCEPT !.n = @ + 1]]

Fail(item) ==
    passes' = [passes EXCEPT ![Len(passes)] =
                  [@ EXCEPT !.n = @ + 1, !.failed = Append(@, item)]]

Skip ==
    passes' = [passes EXCEPT ![Len(passes)] = [@ EXCEPT !.n = @ + 1]]

Returned == [passes EXCEPT ![Len(passes)].state = "returned"]

Raised == [passes EXCEPT ![Len(passes)].state = "raised"]

\* a retry that runs over the whole input of the first pass again
RetryItemsWholeInput(first) == first.files_to_process

\* the argument of the retry call of lines 212, 226, 235 and 243: the failed
\* list that the first pass returned
RetryItems(first) == first.failed

\* the running pass returns and the next one is called at site
CallPass(site, frame) ==
    /\ pc' = site
    /\ passes' = Append(Returned, frame)
    /\ UNCHANGED status

\* the last pass returns and the panel is shown, but the run is never left
FinishStuck(panel) ==
    /\ pc' = pc
    /\ passes' = Returned
    /\ status' = panel

\* the running pass returns and the run ends with the panel panel
Finish(panel) ==
    /\ pc' = "done"
    /\ passes' = Returned
    /\ status' = panel

\* ----------------------------------------------------------- Discover
\* the test of line 201
Discover ==
    /\ pc = "discover"
    /\ calls' = Append(calls, ListCall(target_dir_fid, TRUE))
    /\ all_compressed_files' =
           SelectSeq(FirstPage(remote, target_dir_fid), IsCompressedFile)
    /\ IF all_compressed_files' = <<>>
       THEN /\ pc' = "done"
            /\ status' = "no_files"
            /\ UNCHANGED passes
       ELSE /\ pc' = "unzip1"
            /\ passes' = Append(passes, Frame("unzip", "unzip", FALSE,
                                  all_compressed_files', NominalDelay))
            /\ UNCHANGED status
    /\ UNCHANGED <<args, remote, resolver, successful_unzip, failed_unzip,
                   organized_folders, failed_organize, failed_delete,
                   failed_delete_source>>

\* the listing of line 201 raising
DiscoverRaise ==
    /\ pc = "discover"
    /\ calls' = Append(calls, ListCall(target_dir_fid, FALSE))
    /\ CriticalError
    /\ UNCHANGED <<args, remote, resolver, lists, passes>>

\* -------------------------------------------------------- _unzip_task
\* lines 124-131: the unarchive request returns
UnzipTaskOk ==
    /\ InLoop({"unzip1", "unzip2"})
    /\ calls' = Append(calls, UnarchiveCall(file_info.fid, TRUE))
    /\ remote' \in UnarchiveEffects(remote, file_info, target_dir_fid)
    /\ Succeed(file_info)
    /\ UNCHANGED <<args, pc, resolver, lists, status>>

\* lines 124-131 for an archive of more entries than one page of a listing:
\* the unarchive request returns and the drive unpacks PageSize + 1 entries
UnzipTaskOkLarge ==
    /\ InLoop({"unzip1", "unzip2"})
    /\ calls' = Append(calls, UnarchiveCall(file_info.fid, TRUE))
    /\ remote' = Unpacked(remote, file_info, target_dir_fid, PageSize + 1)
    /\ Succeed(file_info)
    /\ UNCHANGED <<args, pc, resolver, lists, status>>

\* lines 132-134: the unarchive request raises
UnzipTaskRaise ==
    /\ InLoop({"unzip1", "unzip2"})
    /\ calls' = Append(calls, UnarchiveCall(file_info.fid, FALSE))
    /\ Fail(file_info)
    /\ UNCHANGED <<args, remote, pc, resolver, lists, status>>

\* Organize is called even when nothing was unpacked
AfterUnzipNoGate(unzipped) ==
    CallPass("organize1", Frame("organize", "organize", FALSE,
                                unzipped, NominalDelay))

\* lines 215-223: the gate of Organize
AfterUnzip(unzipped) ==
    IF unzipped = <<>>
    THEN Finish("no_unzip")
    ELSE CallPass("organize1", Frame("organize", "organize", FALSE,
                                     unzipped, NominalDelay))

\* lines 209-212: the first pass returns
UnzipFirstReturn ==
    /\ LoopDone("unzip1")
    /\ successful_unzip' = cur.succeeded
    /\ failed_unzip' = cur.failed
    /\ IF failed_unzip' # <<>>
       THEN CallPass("unzip2", Frame("unzip", "unzip", TRUE,
                                     RetryItems(cur), RetryDelay))
       ELSE AfterUnzip(successful_unzip')
    /\ UNCHANGED <<args, remote, resolver, all_compressed_files,
                   organized_folders, failed_organize, failed_delete,
                   failed_delete_source, calls>>

\* lines 212-213: the retry pass returns, its failed list is dropped
UnzipRetryReturn ==
    /\ LoopDone("unzip2")
    /\ successful_unzip' = successful_unzip \o cur.succeeded
    /\ AfterUnzip(successful_unzip')
    /\ UNCHANGED <<args, remote, resolver, all_compressed_files, failed_unzip,
                   organized_folders, failed_organize, failed_delete,
                   failed_delete_source, calls>>


\* ----------------------------------------------------- _organize_task
\* lines 143-144: the listing of the target directory, once per pass
OrganizeRefresh ==
    /\ pc \in {"organize1", "organize2"}
    /\ cur.state = "running"
    /\ ~cur.listed
    /\ calls' = Append(calls, ListCall(target_dir_fid, TRUE))
    /\ passes' = [passes EXCEPT ![Len(passes)] =
                     [@ EXCEPT !.listed = TRUE,
                               !.all_files_in_dir = FirstPage(remote, target_dir_fid)]]
    /\ UNCHANGED <<args, remote, pc, resolver, lists, status>>

\* line 144 raising, outside the try of the loop: the pass does not return
\* and the run ends at line 250
OrganizeRefreshRaise ==
    /\ pc \in {"organize1", "organize2"}
    /\ cur.state = "running"
    /\ ~cur.listed
    /\ calls' = Append(calls, ListCall(target_dir_fid, FALSE))
    /\ passes' = Raised
    /\ CriticalError
    /\ UNCHANGED <<args, remote, resolver, lists>>

\* line 152
unzipped_folder_name == SplitextRoot(file_info.file_name)

\* any directory of the listing is taken for the unpacked folder
IsUnzippedFolderAnyName(item) == item.dir

\* the test of line 155 on one entry of the refreshed listing
IsUnzippedFolder(item) == item.file_name = unzipped_folder_name /\ item.dir

\* lines 153-157: the fid of the first matching directory, None without one
new_folder_fid ==
    LET i == FirstIndex([k \in 1..Len(cur.all_files_in_dir) |->
                              IsUnzippedFolder(cur.all_files_in_dir[k])])
    IN  IF i = 0 THEN None ELSE cur.all_files_in_dir[i].fid

\* line 161
files_to_move == FirstPage(remote, new_folder_fid)

\* line 168
organized_folder == [file_name |-> unzipped_folder_name, fid |-> new_folder_fid]

InOrganizeLoop == InLoop({"organize1", "organize2"}) /\ cur.listed

\* an archive without a matching folder is counted as failed
OrganizeNoFolderFails ==
    /\ InOrganizeLoop
    /\ new_folder_fid = None
    /\ Fail(file_info)
    /\ UNCHANGED <<args, remote, pc, resolver, lists, calls, status>>

\* lines 169-170: no matching folder, the archive goes to neither list
OrganizeNoFolder ==
    /\ InOrganizeLoop
    /\ new_folder_fid = None
    /\ Skip
    /\ UNCHANGED <<args, remote, pc, resolver, lists, calls, status>>

\* line 161 raising: the listing of the folder fails
OrganizeListRaise ==
    /\ InOrganizeLoop
    /\ new_folder_fid # None
    /\ calls' = Append(calls, ListFolderCall(new_folder_fid, FALSE, file_info.fid))
    /\ Fail(file_info)
    /\ UNCHANGED <<args, remote, pc, resolver, lists, status>>

\* lines 166-168: the folder is empty
OrganizeEmptyFolder ==
    /\ InOrganizeLoop
    /\ new_folder_fid # None
    /\ files_to_move = <<>>
    /\ calls' = Append(calls, ListFolderCall(new_folder_fid, TRUE, file_info.fid))
    /\ Succeed(organized_folder)
    /\ UNCHANGED <<args, remote, pc, resolver, lists, status>>

\* the emptied folder is deleted right after the move, inside Organize
OrganizeMoveThenDelete ==
    /\ InOrganizeLoop
    /\ new_folder_fid # None
    /\ files_to_move # <<>>
    /\ calls' = calls \o <<ListFolderCall(new_folder_fid, TRUE, file_info.fid),
                           MoveCall(new_folder_fid, FidsOf(files_to_move), TRUE, file_info.fid),
                           DeleteCall(new_folder_fid, TRUE)>>
    /\ remote' = DeleteEffect(MoveEffect(remote, files_to_move, target_dir_fid),
                              new_folder_fid)
    /\ Succeed(organized_folder)
    /\ UNCHANGED <<args, pc, resolver, lists, status>>

\* lines 162-165, 168: one move request for everything listed, which returns
OrganizeMove ==
    /\ InOrganizeLoop
    /\ new_folder_fid # None
    /\ files_to_move # <<>>
    /\ calls' = calls \o <<ListFolderCall(new_folder_fid, TRUE, file_info.fid),
                           MoveCall(new_folder_fid, FidsOf(files_to_move), TRUE, file_info.fid)>>
    /\ remote' = MoveEffect(remote, files_to_move, target_dir_fid)
    /\ Succeed(organized_folder)
    /\ UNCHANGED <<args, pc, resolver, lists, status>>

\* the folder is recorded as organized although its move raised
OrganizeMoveRaiseRecorded ==
    /\ InOrganizeLoop
    /\ new_folder_fid # None
    /\ files_to_move # <<>>
    /\ calls' = calls \o <<ListFolderCall(new_folder_fid, TRUE, file_info.fid),
                           MoveCall(new_folder_fid, FidsOf(files_to_move), FALSE, file_info.fid)>>
    /\ Succeed(organized_folder)
    /\ UNCHANGED <<args, remote, pc, resolver, lists, status>>

\* line 164 raising
OrganizeMoveRaise ==
    /\ InOrganizeLoop
    /\ new_folder_fid # None
    /\ files_to_move # <<>>
    /\ calls' = calls \o <<ListFolderCall(new_folder_fid, TRUE, file_info.fid),
                           MoveCall(new_folder_fid, FidsOf(files_to_move), FALSE, file_info.fid)>>
    /\ Fail(file_info)
    /\ UNCHANGED <<args, remote, pc, resolver, lists, status>>

\* the source archives are cleaned up whatever the flag says
AfterCleanupNoFlag ==
    CallPass("source1", Frame("cleanup", "source", FALSE,
                              successful_unzip, NominalDelay))

\* the cleanup runs over every archive found instead of the unpacked ones
AfterCleanupAllFound ==
    IF delete_source_files
    THEN CallPass("source1", Frame("cleanup", "source", FALSE,
                                   all_compressed_files, NominalDelay))
    ELSE Finish("completed")

\* lines 237-245: the gate of the cleanup of the source archives
AfterCleanup ==
    IF delete_source_files
    THEN CallPass("source1", Frame("cleanup", "source", FALSE,
                                   successful_unzip, NominalDelay))
    ELSE Finish("completed")

\* lines 229-232: the gate of the cleanup of the folders
AfterOrganize(organized) ==
    IF organized # <<>>
    THEN CallPass("cleanup1", Frame("cleanup", "folders", FALSE,
                                    organized, NominalDelay))
    ELSE AfterCleanup

\* lines 223-226: the first pass returns
OrganizeFirstReturn ==
    /\ LoopDone("organize1")
    /\ cur.listed
    /\ organized_folders' = cur.succeeded
    /\ failed_organize' = cur.failed
    /\ IF failed_organize' # <<>>
       THEN CallPass("organize2", Frame("organize", "organize", TRUE,
                                        RetryItems(cur), RetryDelay))
       ELSE AfterOrganize(organized_folders')
    /\ UNCHANGED <<args, remote, resolver, all_compressed_files,
                   successful_unzip, failed_unzip, failed_delete,
                   failed_delete_source, calls>>

\* lines 226-227: the retry pass returns, its failed list is dropped
OrganizeRetryReturn ==
    /\ LoopDone("organize2")
    /\ cur.listed
    /\ organized_folders' = organized_folders \o cur.succeeded
    /\ AfterOrganize(organized_folders')
    /\ UNCHANGED <<args, remote, resolver, all_compressed_files,
                   successful_unzip, failed_unzip, failed_organize,
                   failed_delete, failed_delete_source, calls>>

\* ------------------------------------------------------ _cleanup_task
CleanupSites == {"cleanup1", "cleanup2", "source1", "source2"}

\* lines 184-189: the delete request returns
CleanupTaskOk ==
    /\ InLoop(CleanupSites)
    /\ calls' = Append(calls, DeleteCall(file_info.fid, TRUE))
    /\ remote' = DeleteEffect(remote, file_info.fid)
    /\ Succeed(file_info)
    /\ UNCHANGED <<args, pc, resolver, lists, status>>

\* lines 190-192: the delete request raises
CleanupTaskRaise ==
    /\ InLoop(CleanupSites)
    /\ calls' = Append(calls, DeleteCall(file_info.fid, FALSE))
    /\ Fail(file_info)
    /\ UNCHANGED <<args, remote, pc, resolver, lists, status>>

\* lines 232-235: the first pass over the folders returns
CleanupFirstReturn ==
    /\ LoopDone("cleanup1")
    /\ failed_delete' = cur.failed
    /\ IF failed_delete' # <<>>
       THEN CallPass("cleanup2", Frame("cleanup", "folders", TRUE,
                                       RetryItems(cur), RetryDelay))
       ELSE AfterCleanup
    /\ UNCHANGED <<args, remote, resolver, all_compressed_files,
                   successful_unzip, failed_unzip, organized_folders,
                   failed_organize, failed_delete_source, calls>>

\* line 235: the retry pass over the folders returns
CleanupRetryReturn ==
    /\ LoopDone("cleanup2")
    /\ AfterCleanup
    /\ UNCHANGED <<args, remote, resolver, lists, calls>>

\* lines 240-243: the first pass over the source archives returns
SourceFirstReturn ==
    /\ LoopDone("source1")
    /\ failed_delete_source' = cur.failed
    /\ IF failed_delete_source' # <<>>
       THEN CallPass("source2", Frame("cleanup", "source", TRUE,
                                      RetryItems(cur), RetryDelay))
       ELSE Finish("completed")
    /\ UNCHANGED <<args, remote, resolver, all_compressed_files,
                   successful_unzip, failed_unzip, organized_folders,
                   failed_organize, failed_delete, calls>>

\* lines 243-245: the retry pass over the source archives returns
SourceRetryReturn ==
    /\ LoopDone("source2")
    /\ Finish("completed")
    /\ UNCHANGED <<args, remote, resolver, lists, calls>>

\* ------------------------------------------------------ specifications
Next ==
    \/ GetFidByPathEnter
    \/ GetFidByPathPart
    \/ GetFidByPathRaise
    \/ GetFidByPathReturn
    \/ Discover
    \/ DiscoverRaise
    \/ UnzipTaskOk
    \/ UnzipTaskRaise
    \/ UnzipFirstReturn
    \/ UnzipRetryReturn
    \/ OrganizeRefresh
    \/ OrganizeRefreshRaise
    \/ OrganizeNoFolder
    \/ OrganizeListRaise
    \/ OrganizeEmptyFolder
    \/ OrganizeMove
    \/ OrganizeMoveRaise
    \/ OrganizeFirstReturn
    \/ OrganizeRetryReturn
    \/ CleanupTaskOk
    \/ CleanupTaskRaise
    \/ CleanupFirstReturn
    \/ CleanupRetryReturn
    \/ SourceFirstReturn
    \/ SourceRetryReturn

\* one run of unzip_all_in_path
Spec == Init /\ [][Next]_vars

\* get_fid_by_path alone, over every path of at most MaxPathLen characters
PathAlphabet == {"/", "d", "e", " "}

Paths == UNION {[1..n -> PathAlphabet] : n \in 0..MaxPathLen}

\* d and the file e under the root, the directory e and the file d under d
TreeNested ==
    (0 :> <<Entry(1, N_d, TRUE), Entry(2, <<"e">>, FALSE)>>) @@
    (1 :> <<Entry(3, <<"e">>, TRUE), Entry(4, N_d, FALSE)>>) @@
    (3 :> <<Entry(5, N_d, FALSE)>>)

\* the root holds a directory named like the whole path " d" and nothing in d
TreeFlat ==
    (0 :> <<Entry(6, <<" ", "d">>, TRUE), Entry(1, N_d, TRUE)>>) @@
    (1 :> <<>>) @@ (6 :> <<>>)

ResolveTrees == {TreeNested, TreeFlat, <<>>}

InitResolve ==
    /\ dir_path \in Paths
    /\ delete_source_files = FALSE
    /\ remote \in ResolveTrees
    /\ InitCommon

NextResolve ==
    \/ GetFidByPathEnter
    \/ GetFidByPathPart
    \/ GetFidByPathRaise
    \/ GetFidByPathReturn

ResolveSpec == InitResolve /\ [][NextResolve]_vars

\* the runs over a directory with one archive, which may hold more entries
\* than one page of a listing
TreeOne ==
    (0 :> <<Entry(1, N_d, TRUE)>>) @@
    (1 :> <<Entry(2, N_a_zip, FALSE)>>)

InitPaging ==
    /\ dir_path \in RunPaths
    /\ delete_source_files \in BOOLEAN
    /\ remote = TreeOne
    /\ InitCommon

NextPaging ==
    \/ Next
    \/ UnzipTaskOkLarge

PagingSpec == InitPaging /\ [][NextPaging]_vars

\* every request returns or raises, and the single thread of
\* unzip_all_in_path then takes its next step
FairSpec == Spec /\ WF_vars(Next)

\* ------------------------------------------------------- the process
\* the exit status of the command: main of cli.py catches every exception
\* of the run and returns without setting one
ExitCode == 0

\* =====================================================================
\* Properties
\* =====================================================================
Stages == {"unzip", "organize", "folders", "source"}

SitesOf(stage) ==
    CASE stage = "unzip"    -> {"unzip1", "unzip2"}
      [] stage = "organize" -> {"organize1", "organize2"}
      [] stage = "folders"  -> {"cleanup1", "cleanup2"}
      [] stage = "source"   -> {"source1", "source2"}

\* the passes of a stage, as indices into passes
PassesOf(stage) == {i \in 1..Len(passes) : passes[i].stage = stage}

\* the items of input at the positions i of 1..n with class[i] = c, in order
RECURSIVE Picked(_, _, _, _)
Picked(input, n, class, c) ==
    IF n = 0 THEN <<>>
    ELSE Picked(input, n - 1, class, c)
           \o (IF class[n] = c THEN <<input[n]>> ELSE <<>>)

\* ---------------------------------------------------------------- C1
\* the attempts made in a stage on the item with this fid: the positions
\* already processed, over the passes of the stage, that hold it
AttemptsOn(stage, fid) ==
    {<<i, k>> \in PassesOf(stage) \X (1..2) :
        /\ k <= passes[i].n
        /\ k <= Len(passes[i].files_to_process)
        /\ passes[i].files_to_process[k].fid = fid}

\* the requests of a stage for the item with this fid
RequestsFor(stage, op, fid) ==
    LET Mine(c) == c.site \in SitesOf(stage) /\ c.op = op /\ c.item = fid
    IN  SelectSeq(calls, Mine)

FoldersFor(listing, archive) ==
    {k \in 1..Len(listing) :
        listing[k].dir /\ listing[k].file_name = SplitextRoot(archive.file_name)}

\* the outputs of pass f are its processed input split by class: the items
\* of class "s" make succeeded (for _organize_task as the folder matched for
\* each of them), the items of class "f" make failed, in the input's order
SplitBy(f, class) ==
    LET won  == Picked(f.files_to_process, f.n, class, "s")
        lost == Picked(f.files_to_process, f.n, class, "f")
    IN  /\ f.failed = lost
        /\ Len(f.succeeded) = Len(won)
        /\ IF f.task = "organize"
           THEN \A k \in 1..Len(won) :
                   \E m \in FoldersFor(f.all_files_in_dir, won[k]) :
                       /\ f.succeeded[k].fid = f.all_files_in_dir[m].fid
                       /\ f.succeeded[k].file_name = f.all_files_in_dir[m].file_name
           ELSE f.succeeded = won

\* C2 as stated: every pass that returned, of every stage, put each item of
\* its input in exactly one of succeeded and failed, in the input's order,
\* so that |succeeded| + |failed| = |input|
C2_TotalPartition ==
    \A i \in 1..Len(passes) :
        passes[i].state = "returned" =>
            /\ Len(passes[i].succeeded) + Len(passes[i].failed)
                   = Len(passes[i].files_to_process)
            /\ \E class \in [1..passes[i].n -> {"s", "f"}] :
                   SplitBy(passes[i], class)

\* C2 amended: in a pass of unzip or of either cleanup each processed item
\* is in exactly one of succeeded and failed; in a pass of organize an
\* archive is in exactly one of them when the refreshed listing of the pass
\* has a directory named like it and in neither when it has none; the
\* outputs keep the order of the input
C2_Partition ==
    \A i \in 1..Len(passes) :
        LET f == passes[i]
        IN  \E class \in [1..f.n -> {"s", "f", "n"}] :
               /\ SplitBy(f, class)
               /\ \A k \in 1..f.n :
                     class[k] = "n" <=>
                        /\ f.task = "organize"
                        /\ FoldersFor(f.all_files_in_dir, f.files_to_process[k]) = {}
               /\ Len(f.succeeded) + Len(f.failed)
                     = f.n - Cardinality({k \in 1..f.n : class[k] = "n"})

\* an organize pass over two archives returned with one folder organized,
\* one archive skipped and none failed, after an unzip pass that split its
\* two items into one success and one failure
C2_Witness ==
    \E i \in 1..Len(passes) :
        /\ passes[i].task = "organize"
        /\ passes[i].state = "returned"
        /\ Len(passes[i].files_to_process) = 2
        /\ Len(passes[i].succeeded) = 1
        /\ passes[i].failed = <<>>
        /\ Len(passes[1].succeeded) = 1
        /\ Len(passes[1].failed) = 1


\* ---------------------------------------------------------------- C3
\* the archives whose unarchive request returned, in the order of the requests
UnpackedFids ==
    LET Accepted(c) == c.op = "unarchive" /\ c.ok
        accepted == SelectSeq(calls, Accepted)
    IN  [k \in 1..Len(accepted) |-> accepted[k].fid]

\* C3 as stated: no pass is left by an exception and a request that raises
\* after Discover does not end the run with the error panel; a finished run
\* that was told to delete the sources and unpacked an archive has called
\* the cleanup of the source archives
C3_NoErrorLeavesStage ==
    /\ \A i \in 1..Len(passes) : passes[i].state # "raised"
    /\ (pc = "done" /\ passes # <<>>) => status # "critical_error"
    /\ (pc = "done" /\ delete_source_files /\ UnpackedFids # <<>>) =>
           PassesOf("source") # {}

\* ---------------------------------------------------------------- C4
\* C4: a delete request of the folders stage is sent only when the organized
\* list (first pass plus retry pass) is not empty, a delete request of the
\* source stage only when delete_source_files is set, and without the flag
\* no delete request at all names the fid of an archive
C4_Gates ==
    \A k \in 1..Len(calls) :
        calls[k].op = "delete" =>
            /\ calls[k].site \in SitesOf("folders") \cup SitesOf("source")
            /\ calls[k].site \in SitesOf("folders") => organized_folders # <<>>
            /\ calls[k].site \in SitesOf("source") => delete_source_files
            /\ ~delete_source_files =>
                   calls[k].fid \notin FidSet(all_compressed_files)

\* without the flag, every archive was unpacked and organized at the first
\* attempt, the folders were deleted and the run completed
C4_Witness ==
    /\ pc = "done"
    /\ status = "completed"
    /\ ~delete_source_files
    /\ Len(all_compressed_files) = 2
    /\ failed_unzip = <<>>
    /\ failed_organize = <<>>
    /\ Len(organized_folders) = 2
    /\ \E k \in 1..Len(calls) : calls[k].op = "delete" /\ calls[k].ok

\* ---------------------------------------------------------------- C5
\* C5: the first organize pass is called with exactly the archives whose
\* unarchive request returned in either unzip pass, which are then at least
\* one; every archive an organize pass is given was unpacked; and as long as
\* no unarchive request has returned, the drive has received no listing from
\* Organize, no move and no delete, whatever the flag
C5_OrganizeOnlyUnpacked ==
    /\ \A i \in PassesOf("organize") :
          /\ FidSet(passes[i].files_to_process) \subseteq
                 {UnpackedFids[k] : k \in 1..Len(UnpackedFids)}
          /\ ~passes[i].retry =>
                 /\ FidsOf(passes[i].files_to_process) = UnpackedFids
                 /\ passes[i].files_to_process # <<>>
    /\ UnpackedFids = <<>> =>
          \A k \in 1..Len(calls) :
              /\ calls[k].op \in {"list", "unarchive"}
              /\ calls[k].site \in {"resolve", "discover", "unzip1", "unzip2"}
    /\ (pc = "done" /\ UnpackedFids = <<>> /\ PassesOf("unzip") # {}) =>
          status = "no_unzip"

\* with the flag set both archives failed in both unzip passes and the run
\* ended there
C5_Witness ==
    /\ pc = "done"
    /\ status = "no_unzip"
    /\ delete_source_files
    /\ Len(passes) = 2
    /\ Len(passes[2].failed) = 2


\* ---------------------------------------------------------------- C6
\* the requests made at a site for the item with this fid
RequestsAt(site, fid) ==
    LET Mine(c) == c.site = site /\ c.item = fid
    IN  SelectSeq(calls, Mine)

OrganizeSite(f) == IF f.retry THEN "organize2" ELSE "organize1"

\* C6: in an organize pass every listing of children and every move made
\* for an archive names the first directory of the pass's refreshed listing
\* whose name is the archive's name without its extension, and a move takes
\* the target directory as destination; an archive processed without such a
\* directory in the listing has caused no request and is neither in
\* organized nor in failed
C6_MoveOnlyMatchedFolder ==
    \A i \in PassesOf("organize") :
        LET f == passes[i] IN
        \A k \in 1..f.n :
            LET archive == f.files_to_process[k]
                folders == FoldersFor(f.all_files_in_dir, archive)
                reqs    == RequestsAt(OrganizeSite(f), archive.fid)
            IN  IF folders = {}
                THEN /\ reqs = <<>>
                     /\ \A j \in 1..Len(f.failed) : f.failed[j] # archive
                     /\ \A j \in 1..Len(f.succeeded) :
                           f.succeeded[j].file_name # SplitextRoot(archive.file_name)
                ELSE \A j \in 1..Len(reqs) :
                        /\ reqs[j].op \in {"list", "move"}
                        /\ \E m \in folders :
                              /\ reqs[j].fid = f.all_files_in_dir[m].fid
                              /\ \A m2 \in folders : m <= m2
                        /\ reqs[j].op = "move" => reqs[j].to = target_dir_fid

\* the only archive was unpacked, no folder named like it showed up in the
\* refreshed listing, and the run completed with nothing organized, nothing
\* failed and no request from Organize but the refresh
C6_Witness ==
    /\ pc = "done"
    /\ status = "completed"
    /\ Len(successful_unzip) = 1
    /\ organized_folders = <<>>
    /\ failed_organize = <<>>
    /\ PassesOf("organize") = {2}
    /\ passes[2].n = 1
    /\ PassesOf("folders") = {}

\* ---------------------------------------------------------------- C7
\* the fids of the delete requests sent at a site, in order
DeletedAt(site) ==
    LET Mine(c) == c.site = site /\ c.op = "delete"
        mine == SelectSeq(calls, Mine)
    IN  [k \in 1..Len(mine) |-> mine[k].fid]

\* C7: every delete request of the source stage names an archive whose
\* unarchive request returned in one of the two unzip passes; an archive
\* whose unarchive request raised in both passes gets no delete request at
\* all; and once the first pass of the source stage is through its loop it
\* has sent one delete request per unpacked archive, each exactly once
C7_SourcesOnlyUnpacked ==
    /\ \A k \in 1..Len(calls) :
          (calls[k].op = "delete" /\ calls[k].site \in SitesOf("source")) =>
              \E j \in 1..Len(UnpackedFids) : UnpackedFids[j] = calls[k].fid
    /\ \A k \in 1..Len(calls) :
          (calls[k].op = "delete"
              /\ calls[k].fid \in FidSet(all_compressed_files)) =>
              \E j \in 1..Len(UnpackedFids) : UnpackedFids[j] = calls[k].fid
    /\ \A i \in PassesOf("source") :
          (~passes[i].retry /\ passes[i].n = Len(passes[i].files_to_process)) =>
              /\ DeletedAt("source1") = UnpackedFids
              /\ \A a, b \in 1..Len(UnpackedFids) :
                    UnpackedFids[a] = UnpackedFids[b] => a = b

\* one archive was unpacked by the retry pass only, the other one by no
\* pass, and the source stage ran to the end
C7_Witness ==
    /\ pc = "done"
    /\ status = "completed"
    /\ delete_source_files
    /\ Len(all_compressed_files) = 2
    /\ Len(UnpackedFids) = 1
    /\ passes[1].succeeded = <<>>
    /\ PassesOf("source") # {}

\* ---------------------------------------------------------------- C8
\* C8: when the path resolution has failed on a part without a child of
\* that name, the run is over, the only requests it has sent are listings
\* made by the resolution, and the tree is one of the initial trees
C8_PathNotFoundMutatesNothing ==
    status = "init_error" =>
        /\ pc = "done"
        /\ remote \in Trees
        /\ passes = <<>>
        /\ \A k \in 1..Len(calls) :
              calls[k].op = "list" /\ calls[k].site = "resolve"

\* the walk of d/x found d and failed on x
C8_Witness ==
    /\ status = "init_error"
    /\ dir_path = <<"d", "/", "x">>
    /\ Len(calls) = 2
    /\ remote = TreeTwo


\* ---------------------------------------------------------------- C9
\* the fid of the first child of pid with exactly this name, None without one
ChildNamed(tree, pid, name) ==
    LET listing == Children(tree, pid)
        named == {k \in 1..Len(listing) : listing[k].file_name = name}
    IN  IF named = {} THEN None
        ELSE listing[CHOOSE k \in named : \A j \in named : k <= j].fid

\* the fid reached from the root by matching the parts one after the other,
\* None as soon as one of them has no child of that name
RECURSIVE Walk(_, _)
Walk(tree, parts) ==
    IF parts = <<>> THEN 0
    ELSE LET above == Walk(tree, SubSeq(parts, 1, Len(parts) - 1))
         IN  IF above = None THEN None
             ELSE ChildNamed(tree, above, Last(parts))

\* C9: for a path other than "/", with parts its non-empty components: the
\* resolution sends listings only, at most one per part, the k-th for the
\* node reached by matching the first k-1 parts from the root; it sends the
\* next one only after the listing returned a child named like the part; a
\* returned listing without such a child ends it at once with the
\* path-not-found error, so that no later part is listed; and when it
\* returns, every part was listed once and the result is the child matched
\* for the last part
C9_ResolveWalk ==
    dir_path # <<"/">> =>
        LET parts == PathParts(dir_path)
            Reached(k) == Walk(remote, SubSeq(parts, 1, k))
        IN  /\ Len(calls) <= Len(parts)
            /\ \A k \in 1..Len(calls) :
                  /\ calls[k].op = "list"
                  /\ Reached(k - 1) # None
                  /\ calls[k].fid = Reached(k - 1)
                  /\ k < Len(calls) => (calls[k].ok /\ Reached(k) # None)
            /\ (calls # <<>> /\ Last(calls).ok /\ Reached(Len(calls)) = None)
                  <=> status = "init_error"
            /\ status = "init_error" => pc = "done"
            /\ pc = "discover" =>
                  /\ Len(calls) = Len(parts)
                  /\ target_dir_fid = Reached(Len(parts))
                  /\ target_dir_fid # None

\* a path of three parts whose first part is found and whose second part is
\* not: two listings, no third one
C9_Witness ==
    /\ status = "init_error"
    /\ Len(PathParts(dir_path)) = 3
    /\ Len(calls) = 2
    /\ calls[2].fid = 1

\* --------------------------------------------------------------- C10
\* C10: for the path "/" no request is ever sent, and once get_fid_by_path
\* is entered it has returned the root fid 0 without an error
C10_RootShortcut ==
    dir_path = <<"/">> =>
        /\ calls = <<>>
        /\ pc # "start" =>
              /\ pc = "discover"
              /\ target_dir_fid = 0
              /\ status = "running"

\* "/" resolved over a tree with entries under the root
C10_Witness ==
    /\ dir_path = <<"/">>
    /\ pc = "discover"
    /\ target_dir_fid = 0
    /\ remote = TreeNested


\* --------------------------------------------------------------- C11
\* some item failed in the first pass and again in the retry pass of a stage
Unrecovered ==
    \E i \in 1..Len(passes) : passes[i].retry /\ passes[i].failed # <<>>

\* the run told its caller that it failed: by its exit status or by a
\* closing panel other than "All tasks completed!"
FailureSignalled == ExitCode # 0 \/ status # "completed"

\* C11 as stated: a run that got to the stages signals a failure exactly
\* when some item failed both passes of a stage; a run with such a failure
\* does not end with exit status 0 and the panel of a run without failures
C11_OutcomeReflectsFailures ==
    (pc = "done" /\ status \in {"completed", "no_unzip"}) =>
        /\ FailureSignalled <=> Unrecovered
        /\ Unrecovered => ~(ExitCode = 0 /\ status = "completed")


\* --------------------------------------------------------------- C12
\* the place of a call site in the order of the stages
Rank(site) ==
    CASE site = "resolve"   -> 0
      [] site = "discover"  -> 1
      [] site = "unzip1"    -> 2
      [] site = "unzip2"    -> 3
      [] site = "organize1" -> 4
      [] site = "organize2" -> 5
      [] site = "cleanup1"  -> 6
      [] site = "cleanup2"  -> 7
      [] site = "source1"   -> 8
      [] site = "source2"   -> 9

IsExtract(c)      == c.op = "unarchive"
IsOrganize(c)     == c.op = "move" \/ (c.op = "list" /\ c.site \in SitesOf("organize"))
IsMove(c)         == c.op = "move"
IsFolderDelete(c) == c.op = "delete" /\ c.site \in SitesOf("folders")
IsSourceDelete(c) == c.op = "delete" /\ c.site \in SitesOf("source")

\* C12: the requests follow the order of the stages: every unarchive
\* request comes before every listing and move of Organize, every move
\* before every delete of a folder, every delete of a folder before every
\* delete of a source archive; each kind of request is sent by its own
\* stage only; and a source archive is deleted only when every pass of
\* unzip, organize and the folders cleanup has returned
C12_StageOrder ==
    /\ \A i, j \in 1..Len(calls) :
          i < j =>
              /\ Rank(calls[i].site) <= Rank(calls[j].site)
              /\ ~(IsOrganize(calls[i]) /\ IsExtract(calls[j]))
              /\ ~(IsFolderDelete(calls[i]) /\ IsMove(calls[j]))
              /\ ~(IsSourceDelete(calls[i]) /\ IsFolderDelete(calls[j]))
              /\ ~(IsSourceDelete(calls[i]) /\ (IsOrganize(calls[j]) \/ IsExtract(calls[j])))
    /\ \A k \in 1..Len(calls) :
          /\ IsExtract(calls[k]) => calls[k].site \in SitesOf("unzip")
          /\ IsMove(calls[k]) => calls[k].site \in SitesOf("organize")
          /\ calls[k].op = "delete" =>
                 (IsFolderDelete(calls[k]) \/ IsSourceDelete(calls[k]))
          /\ IsSourceDelete(calls[k]) =>
                 /\ calls[k].fid \in FidSet(all_compressed_files)
                 /\ \A i \in 1..Len(passes) :
                       passes[i].stage # "source" => passes[i].state = "returned"
          /\ IsFolderDelete(calls[k]) =>
                 calls[k].fid \notin FidSet(all_compressed_files)

\* a run with the flag that unpacked one archive in the retry pass, moved
\* the entries of a folder, deleted a folder and deleted a source archive
C12_Witness ==
    /\ pc = "done"
    /\ status = "completed"
    /\ \E k \in 1..Len(calls) : IsExtract(calls[k]) /\ calls[k].site = "unzip2" /\ calls[k].ok
    /\ \E k \in 1..Len(calls) : IsMove(calls[k]) /\ calls[k].ok
    /\ \E k \in 1..Len(calls) : IsFolderDelete(calls[k]) /\ calls[k].ok
    /\ \E k \in 1..Len(calls) : IsSourceDelete(calls[k]) /\ calls[k].ok


\* --------------------------------------------------------------- C13
\* the k-th request is a listing of the children of folder made by Organize
\* that returned and was followed either by no move of that folder (nothing
\* was listed) or by a move of it into the target directory that returned
OrganizedBy(k, folder) ==
    /\ calls[k].op = "list"
    /\ calls[k].site \in SitesOf("organize")
    /\ calls[k].item # None
    /\ calls[k].fid = folder
    /\ calls[k].ok
    /\ (k < Len(calls) /\ calls[k + 1].op = "move" /\ calls[k + 1].item = calls[k].item) =>
           /\ calls[k + 1].ok
           /\ calls[k + 1].fid = folder
           /\ calls[k + 1].to = target_dir_fid

\* C13: every delete request of the folders stage names a folder for which
\* an earlier request of Organize listed the children successfully and then
\* either had nothing to move or moved what was listed successfully; every
\* entry of the list given to the folders stage is such a folder
C13_DeleteOnlyOrganized ==
    /\ \A d \in 1..Len(calls) :
          IsFolderDelete(calls[d]) =>
              \E k \in 1..(d - 1) : OrganizedBy(k, calls[d].fid)
    /\ \A i \in PassesOf("folders") :
          \A e \in 1..Len(passes[i].files_to_process) :
              \E k \in 1..Len(calls) :
                  OrganizedBy(k, passes[i].files_to_process[e].fid)

\* the move out of a folder raised in the first Organize pass and returned
\* in the retry pass, and the folder was then deleted
C13_Witness ==
    \E m1, m2, d \in 1..Len(calls) :
        /\ m1 < m2 /\ m2 < d
        /\ IsMove(calls[m1]) /\ ~calls[m1].ok /\ calls[m1].site = "organize1"
        /\ IsMove(calls[m2]) /\ calls[m2].ok /\ calls[m2].site = "organize2"
        /\ calls[m2].fid = calls[m1].fid
        /\ IsFolderDelete(calls[d]) /\ calls[d].ok /\ calls[d].fid = calls[m1].fid


\* --------------------------------------------------------------- C14
\* C14 as stated: every archive in the failed list of an organize pass had
\* its move request raise in that pass
C14_FailedOnlyByMove ==
    \A i \in PassesOf("organize") :
        \A k \in 1..Len(passes[i].failed) :
            LET reqs == RequestsAt(OrganizeSite(passes[i]), passes[i].failed[k].fid)
            IN  \E j \in 1..Len(reqs) : reqs[j].op = "move" /\ ~reqs[j].ok

\* C14 amended: an archive is in the failed list of an organize pass exactly
\* when the last request the pass made for it, the listing of the matched
\* folder's children or the move, raised; an archive for which the pass
\* made no request (no matching folder) is not in failed
C14_FailedByListOrMove ==
    \A i \in PassesOf("organize") :
        LET f == passes[i] IN
        \A k \in 1..f.n :
            LET archive == f.files_to_process[k]
                reqs    == RequestsAt(OrganizeSite(f), archive.fid)
            IN  (\E j \in 1..Len(f.failed) : f.failed[j] = archive)
                    <=> /\ reqs # <<>>
                        /\ ~Last(reqs).ok
                        /\ Last(reqs).op \in {"list", "move"}

\* an organize pass put an archive in failed after the listing of its
\* folder's children raised, without any move request for it
C14_Witness ==
    \E i \in PassesOf("organize") :
        /\ passes[i].state = "returned"
        /\ passes[i].failed # <<>>
        /\ LET reqs == RequestsAt(OrganizeSite(passes[i]), passes[i].failed[1].fid)
           IN  /\ Len(reqs) = 1
               /\ reqs[1].op = "list"
               /\ ~reqs[1].ok


\* --------------------------------------------------------------- C15
\* the folder was made by the drive for an unarchive request of this run
\* that returned before the k-th request
ExtractedBefore(k, folder) ==
    \E j \in 1..(k - 1) :
        /\ IsExtract(calls[j])
        /\ calls[j].ok
        /\ folder = FolderFid(calls[j].fid)

\* C15 as stated: every folder whose children Organize lists or moves and
\* every folder the folders stage deletes was made by an unarchive request
\* of this run; a directory that was in the target directory before the run
\* is not touched
C15_OnlyExtractedFolders ==
    \A k \in 1..Len(calls) :
        (IsMove(calls[k]) \/ IsFolderDelete(calls[k])) =>
            ExtractedBefore(k, calls[k].fid)


\* --------------------------------------------------------------- C16
\* C16 as stated: when the folders stage is about to send the delete
\* request for an entry of the organized list, that folder has no children
\* left in the tree
C16_DeletedFolderIsEmpty ==
    (pc \in SitesOf("folders") /\ cur.state = "running"
        /\ cur.n < Len(cur.files_to_process)) =>
        Children(remote, file_info.fid) = <<>>


\* --------------------------------------------------------------- C17
\* the name has a dot and the part after its last dot is a recognised
\* extension
HasArchiveExtension(name) ==
    /\ RFind(name, ".") > 0
    /\ SubSeq(name, RFind(name, ".") + 1, Len(name)) \in ArchiveExtensions

IsArchiveItem(e) == ~e.dir /\ HasArchiveExtension(e.file_name)

\* C17 as stated: what Discover selected is, in the order of the listing,
\* exactly the children of the target directory that are not directories
\* and whose name has a recognised extension after its last dot; a name
\* without a dot is not selected (compared right after Discover, before any
\* request changed the tree)
C17_DiscoverSelectsArchives ==
    /\ \A k \in 1..Len(all_compressed_files) :
          IsArchiveItem(all_compressed_files[k])
    /\ ((pc = "unzip1" /\ cur.n = 0) \/ status = "no_files") =>
          all_compressed_files =
              SelectSeq(Children(remote, target_dir_fid), IsArchiveItem)

\* --------------------------------------------------------------- C18
\* the panels a run can end with: lines 248, 250, 204, 216, 245
TerminalStatuses ==
    {"init_error", "critical_error", "no_files", "no_unzip", "completed"}

\* the first pass and the retry passes of a stage, as indices into passes
FirstOf(stage) == {i \in PassesOf(stage) : ~passes[i].retry}
RetryOf(stage) == {i \in PassesOf(stage) : passes[i].retry}

\* the pass went over its whole input and returned
PassComplete(i) ==
    /\ passes[i].state = "returned"
    /\ passes[i].n = Len(passes[i].files_to_process)

\* the gates of lines 215, 230 and 238, as they stand at the end of the run
Applicable(stage) ==
    CASE stage = "unzip"    -> TRUE
      [] stage = "organize" -> successful_unzip # <<>>
      [] stage = "folders"  -> organized_folders # <<>>
      [] stage = "source"   -> delete_source_files

\* one complete first pass, and one complete retry pass exactly when the
\* first pass returned failures
StageCompleted(stage) ==
    /\ Cardinality(FirstOf(stage)) = 1
    /\ \A i \in FirstOf(stage) :
          /\ PassComplete(i)
          /\ Cardinality(RetryOf(stage)) =
                 IF passes[i].failed # <<>> THEN 1 ELSE 0
    /\ \A i \in RetryOf(stage) : PassComplete(i)

StagesCompleted ==
    \A stage \in Stages :
        IF Applicable(stage) THEN StageCompleted(stage)
        ELSE PassesOf(stage) = {}

\* C18 as stated: a run ends aborted on path-not-found, with nothing to do,
\* with no extraction succeeded, or Done, and in no other way.
C18_ClaimedTerminalStates ==
    pc = "done" =>
        status \in {"init_error", "no_files", "no_unzip", "completed"}

\* C18, amended: when every request returns or raises, every run ends; it
\* ends aborted on path-not-found, aborted on a listing request that raised
\* outside the per-item handlers, with nothing to do, with no extraction
\* succeeded, or Done; and Done is reached only after every applicable stage
\* completed its first pass and, if that returned failures, its retry pass.
C18_Terminates ==
    /\ <>(pc = "done")
    /\ [](pc = "done" <=> status \in TerminalStatuses)
    /\ [](status = "completed" => StagesCompleted)

\* a run that is Done after the first pass and the retry pass of all four
\* stages
C18_Witness ==
    /\ pc = "done"
    /\ status = "completed"
    /\ \A stage \in Stages :
          Cardinality(FirstOf(stage)) = 1 /\ Cardinality(RetryOf(stage)) = 1

\* --------------------------------------------------------------- C19
\* no value occurs twice in the sequence
Distinct(seq) ==
    \A i, j \in 1..Len(seq) : seq[i] = seq[j] => i = j

\* C19: the list handed to the first pass of the folders cleanup holds each
\* folder fid at most once, and no folder gets more than one delete request
\* in that pass.
C19_OrganizedFoldersDistinct ==
    /\ \A i \in FirstOf("folders") :
          Distinct(FidsOf(passes[i].files_to_process))
    /\ Distinct(DeletedAt("cleanup1"))

====
